---- MODULE Spec2Model ----
(***************************************************************************)
(* Model of dscontrib/flawrence/abtest_stats/beta.py: Bayesian comparison  *)
(* of conversion rates from per-branch (enrollments, conversions) counts.  *)
(*                                                                         *)
(* The engine is a set of synchronous functions.  A caller at pc = "idle"  *)
(* makes one call; the whole call runs as one action and leaves its        *)
(* arguments in `call` and what it did in `out` (pc = "returned"); the     *)
(* caller then drops the result (Return).  The only state that survives a  *)
(* call is `rng`, the state of numpy's module-level generator np.random.   *)
(*                                                                         *)
(* Floats are modelled on a grid 0..Scale (NaN apart); a pandas DataFrame  *)
(* is the sequence of its rows in index order.  Library behaviour is that  *)
(* of pandas < 1.0, the only versions in which the dict-renaming           *)
(* SeriesGroupBy.agg of lines 43-46 and 80-83 runs at all.                 *)
(***************************************************************************)
EXTENDS Integers, Sequences, FiniteSets

VARIABLES rng, pc, call, out

vars == <<rng, pc, call, out>>

----------------------------------------------------------------------------
(* Bounds of the model *)

MaxCount == 1         \* enrollments and conversions of a summary row: 0..MaxCount
MaxSamples == 2       \* num_samples ranges over -1..MaxSamples
MaxRows == 3          \* subjects (rows) of a raw experiment DataFrame: 0..MaxRows
RngPeriod == 3        \* number of states of the pseudo-random generator
Scale == 4            \* resolution of the grid that stands for [0, 1]

Labels == {"a", "b", "control"}              \* branches occurring in data
LabelOrder == <<"a", "b", "control">>        \* sorted order, as groupby yields it
LabelArgs == Labels \cup {"missing"}         \* label arguments a caller may pass
None == "None"                               \* focus_label's default
MetricValues == {0, 1, 2}                    \* values of a raw metric column

NaN == 0 - 1          \* float('nan') on the sample grid

----------------------------------------------------------------------------
(* DataFrame helpers *)

Index(df) == [i \in 1..Len(df) |-> df[i].branch]

IndexSet(df) == {df[i].branch : i \in 1..Len(df)}

\* df.loc[label] for a label that occurs in the index
Loc(df, label) == df[CHOOSE i \in 1..Len(df) : df[i].branch = label]

Pos(label) == CHOOSE i \in 1..Len(LabelOrder) : LabelOrder[i] = label

SummaryRows ==
    [branch : Labels, nan : {FALSE},
     num_enrollments : 0..MaxCount, num_conversions : 0..MaxCount]

\* Summary Tables a caller can pass: one row per branch of a non-empty
\* subset of Labels
SummaryTables ==
    {t \in UNION {[1..k -> SummaryRows] : k \in 1..Cardinality(Labels)} :
        \A i, j \in 1..Len(t) : i < j => Pos(t[i].branch) < Pos(t[j].branch)}

SampleCounts == (0 - 1)..MaxSamples

----------------------------------------------------------------------------
(* np.random: the module-level generator *)

RngStates == 0..(RngPeriod - 1)

Advance(s, k) == (s + k) % RngPeriod

\* One Beta(a, b) variate from generator state s, on the grid 0..Scale
BetaVariate(s, a, b) == (Scale * (a + s)) \div (a + b + RngPeriod - 1)

\* np.random.beta(a, b, size=size) from generator state s
np_random_beta(nan, a, b, size, s) ==
    IF ~nan /\ a <= 0
    THEN [error |-> "ValueError: a <= 0", draws |-> <<>>, rng |-> s]
    ELSE IF ~nan /\ b <= 0
    THEN [error |-> "ValueError: b <= 0", draws |-> <<>>, rng |-> s]
    ELSE IF size < 0
    THEN [error |-> "ValueError: negative dimensions are not allowed",
          draws |-> <<>>, rng |-> s]
    ELSE [error |-> "",
          draws |-> [i \in 1..size |->
                        IF nan THEN NaN
                        ELSE BetaVariate(Advance(s, i - 1), a, b)],
          rng |-> Advance(s, size)]

----------------------------------------------------------------------------
(* Posterior sampler *)

\* first shape parameter handed to np.random.beta
sampler_alpha(r) == r.num_conversions + 1

\* second shape parameter handed to np.random.beta
sampler_beta(r) == r.num_enrollments - r.num_conversions + 1

RECURSIVE generate_rows(_, _, _, _)
generate_rows(df, num_samples, k, acc) ==
    IF k > Len(df) THEN acc
    ELSE LET r == df[k]
             d == np_random_beta(r.nan, sampler_alpha(r), sampler_beta(r),
                                 num_samples, acc.rng)
         IN  IF d.error # ""
             THEN [acc EXCEPT !.error = d.error]
             ELSE generate_rows(df, num_samples, k + 1,
                     [acc EXCEPT
                        !.columns = Append(@, [branch |-> r.branch,
                                               nan |-> r.nan,
                                               alpha |-> sampler_alpha(r),
                                               beta |-> sampler_beta(r),
                                               draws |-> d.draws]),
                        !.rng = d.rng])

\* _generate_samples: the columns drawn so far, the error that stopped it
\* (if any) and the generator state it leaves
generate_samples(df, num_samples, s) ==
    generate_rows(df, num_samples, 1, [error |-> "", columns |-> <<>>, rng |-> s])

\* samples[label]
Col(samples, label) ==
    samples[CHOOSE i \in 1..Len(samples) : samples[i].branch = label].draws

Columns(samples) == {samples[i].branch : i \in 1..Len(samples)}

----------------------------------------------------------------------------
(* Pairwise comparator (abtest_stats.compare_two_sample_sets): its          *)
(* statistics are a function of its two arguments, kept uninterpreted.      *)

compare_two_sample_sets(focus, reference) ==
    [focus |-> focus, reference |-> reference]

----------------------------------------------------------------------------
(* Single-branch summarizer *)

\* numpy division: x / 0 is inf or nan (with a warning), never an exception
np_divide(r) ==
    IF r.nan THEN [kind |-> "nan", num |-> 0, den |-> 0]
    ELSE IF r.num_enrollments = 0
    THEN [kind |-> IF r.num_conversions = 0 THEN "nan" ELSE "inf",
          num |-> r.num_conversions, den |-> 0]
    ELSE [kind |-> "finite", num |-> r.num_conversions, den |-> r.num_enrollments]

summary_alpha_mutant(s) == s.num_conversions

\* first shape parameter of st.beta
summary_alpha(s) == s.num_conversions + 1

\* second shape parameter of st.beta
summary_beta(s) == s.num_enrollments - s.num_conversions + 1

summarize_one_from_summary(s) ==
    [mean |-> np_divide(s),
     nan |-> s.nan,
     alpha |-> summary_alpha(s),
     beta |-> summary_beta(s)]

----------------------------------------------------------------------------
(* Outcomes of a call *)

Blank(s) ==
    [status |-> "returned", error |-> "", stage |-> "",
     table |-> <<>>, validated |-> FALSE, test_label |-> "",
     sampled |-> FALSE, columns |-> <<>>,
     comparative |-> <<>>, individual |-> <<>>, rng |-> s]

Raise(o, error, stage) ==
    [o EXCEPT !.status = "raised", !.error = error, !.stage = stage]

----------------------------------------------------------------------------
(* Two-branch orchestrator *)

validate_two_mutant(df, control_label) ==
    IF Len(df) # 2 THEN "AssertionError: len(df.index) == 2" ELSE ""

\* the two assertions that open compare_two_from_summary
validate_two(df, control_label) ==
    IF Len(df) # 2 THEN "AssertionError: len(df.index) == 2"
    ELSE IF control_label \notin IndexSet(df)
    THEN "AssertionError: Which branch is the control?"
    ELSE ""

comparative_two_mutant(samples, test_label, control_label) ==
    compare_two_sample_sets(Col(samples, control_label), Col(samples, test_label))

comparative_two(samples, test_label, control_label) ==
    compare_two_sample_sets(Col(samples, test_label), Col(samples, control_label))

individual_two(df, control_label, test_label) ==
    [l \in {control_label, test_label} |-> summarize_one_from_summary(Loc(df, l))]

compare_two_from_summary(df, control_label, num_samples, s) ==
    LET v == validate_two(df, control_label)
        rest == IndexSet(df) \ {control_label}
    IN
    IF v # "" THEN Raise([Blank(s) EXCEPT !.table = df], v, "validate")
    ELSE IF rest = {}
    THEN Raise([Blank(s) EXCEPT !.table = df, !.validated = TRUE],
               "IndexError", "test_label")
    ELSE
    LET test_label == CHOOSE l \in rest : TRUE
        g == generate_samples(df, num_samples, s)
        o == [Blank(s) EXCEPT !.table = df, !.validated = TRUE,
                              !.test_label = test_label,
                              !.columns = g.columns, !.rng = g.rng]
    IN
    IF g.error # "" THEN Raise(o, g.error, "sample")
    ELSE IF {test_label, control_label} \subseteq Columns(g.columns) /\
            {test_label, control_label} \subseteq IndexSet(df)
    THEN [o EXCEPT
            !.sampled = TRUE,
            !.comparative = comparative_two(g.columns, test_label, control_label),
            !.individual = individual_two(df, control_label, test_label)]
    ELSE Raise([o EXCEPT !.sampled = TRUE], "KeyError", "compare")

----------------------------------------------------------------------------
(* Multi-branch orchestrator *)

Max(S) == CHOOSE x \in S : \A y \in S : y <= x

\* max(axis='columns') of the given columns: NaN where a row has no value
RowMax(cols, n) ==
    [i \in 1..n |->
        LET vals == {cols[j].draws[i] : j \in 1..Len(cols)} \ {NaN}
        IN  IF vals = {} THEN NaN ELSE Max(vals)]

Drop(samples, branch) == SelectSeq(samples, LAMBDA c : c.branch # branch)

best_of_rest_mutant(samples, branch, n) == RowMax(samples, n)

\* samples.drop(branch, axis='columns').max(axis='columns')
best_of_rest(samples, branch, n) == RowMax(Drop(samples, branch), n)

individual_many_mutant(df) ==
    [b \in IndexSet(df) \ {"control"} |-> summarize_one_from_summary(Loc(df, b))]

individual_many(df) ==
    [b \in IndexSet(df) |-> summarize_one_from_summary(Loc(df, b))]

compare_many_from_summary(df, num_samples, s) ==
    LET g == generate_samples(df, num_samples, s)
        o == [Blank(s) EXCEPT !.table = df, !.validated = TRUE,
                              !.columns = g.columns, !.rng = g.rng]
    IN
    IF g.error # "" THEN Raise(o, g.error, "sample")
    ELSE [o EXCEPT
            !.sampled = TRUE,
            !.comparative =
                [b \in IndexSet(df) |->
                    compare_two_sample_sets(
                        Col(g.columns, b),
                        best_of_rest(g.columns, b, num_samples))],
            !.individual = individual_many(df)]

----------------------------------------------------------------------------
(* Raw-data entry points *)

RawRows == [branch : Labels, value : MetricValues]

\* experiment DataFrames: one row per subject
RawFrames == UNION {[1..k -> RawRows] : k \in 0..MaxRows}

RECURSIVE SumWhere(_, _, _)
SumWhere(df, label, k) ==
    IF k = 0 THEN 0
    ELSE SumWhere(df, label, k - 1) +
         (IF df[k].branch = label THEN df[k].value ELSE 0)

\* df.groupby('branch')[col_label].agg({'num_enrollments': len,
\*                                      'num_conversions': np.sum})
GroupBy(df) ==
    LET present == {df[i].branch : i \in 1..Len(df)}
        index == SelectSeq(LabelOrder, LAMBDA l : l \in present)
    IN  [k \in 1..Len(index) |->
            [branch |-> index[k], nan |-> FALSE,
             num_enrollments |-> Cardinality({i \in 1..Len(df) : df[i].branch = index[k]}),
             num_conversions |-> SumWhere(df, index[k], Len(df))]]

\* summary.loc[[focus_label, control_label]]: KeyError when no label is in
\* the index, else one row per requested label, all-NaN for a label that is
\* not in the index (pandas < 1.0 reindexes, with a FutureWarning)
loc_list(summary, labels) ==
    IF \A k \in 1..Len(labels) : labels[k] \notin IndexSet(summary)
    THEN [error |-> "KeyError", df |-> <<>>]
    ELSE [error |-> "",
          df |-> [k \in 1..Len(labels) |->
                    IF labels[k] \in IndexSet(summary)
                    THEN Loc(summary, labels[k])
                    ELSE [branch |-> labels[k], nan |-> TRUE,
                          num_enrollments |-> 0, num_conversions |-> 0]]]

\* ((df[col_label] == 0) | (df[col_label] == 1)).all()
metric_check_two(df) == \A i \in 1..Len(df) : df[i].value = 0 \/ df[i].value = 1

compare_two(df, focus_label, control_label, num_samples, s) ==
    IF ~metric_check_two(df)
    THEN Raise(Blank(s), "AssertionError: metric is 0/1", "metric_check")
    ELSE
    LET summary == GroupBy(df) IN
    IF Len(summary) > 2
    THEN IF focus_label = None
         THEN Raise([Blank(s) EXCEPT !.table = summary],
                    "AssertionError: focus_label is not None", "extract")
         ELSE LET x == loc_list(summary, <<focus_label, control_label>>) IN
              IF x.error # ""
              THEN Raise([Blank(s) EXCEPT !.table = summary], x.error, "extract")
              ELSE compare_two_from_summary(x.df, control_label, num_samples, s)
    ELSE compare_two_from_summary(summary, control_label, num_samples, s)

\* (df[col_label] == 0) | (df[col_label] == 1).all(): `.all()` binds tighter
\* than `|`, so this is a Series, one flag per row
metric_flags_many(df) ==
    [i \in 1..Len(df) |-> df[i].value = 0 \/ (\A j \in 1..Len(df) : df[j].value = 1)]

\* bool(series), as `assert series` evaluates it: pandas raises for every
\* Series, whatever its length
series_bool(flags) ==
    [error |-> "ValueError: The truth value of a Series is ambiguous",
     value |-> FALSE]

compare_many(df, num_samples, s) ==
    LET t == series_bool(metric_flags_many(df)) IN
    IF t.error # "" THEN Raise(Blank(s), t.error, "metric_check")
    ELSE IF ~t.value
    THEN Raise(Blank(s), "AssertionError: metric is 0/1", "metric_check")
    ELSE compare_many_from_summary(GroupBy(df), num_samples, s)

----------------------------------------------------------------------------
(* State machine *)

NoCall == [fn |-> "none"]

Init ==
    /\ rng = 0
    /\ pc = "idle"
    /\ call = NoCall
    /\ out = Blank(0)

Finish(c, o) ==
    /\ pc' = "returned"
    /\ call' = c
    /\ out' = o
    /\ rng' = o.rng

CallGenerateSamples ==
    /\ pc = "idle"
    /\ \E df \in SummaryTables, num_samples \in SampleCounts :
        LET g == generate_samples(df, num_samples, rng)
            o == [Blank(rng) EXCEPT !.table = df, !.columns = g.columns,
                                    !.rng = g.rng]
        IN  Finish([fn |-> "_generate_samples", df |-> df,
                    num_samples |-> num_samples, rng0 |-> rng],
                   IF g.error # "" THEN Raise(o, g.error, "sample")
                   ELSE [o EXCEPT !.sampled = TRUE])

CallCompareTwoFromSummary ==
    /\ pc = "idle"
    /\ \E df \in SummaryTables, control_label \in LabelArgs,
          num_samples \in SampleCounts :
        Finish([fn |-> "compare_two_from_summary", df |-> df,
                control_label |-> control_label,
                num_samples |-> num_samples, rng0 |-> rng],
               compare_two_from_summary(df, control_label, num_samples, rng))

CallCompareManyFromSummary ==
    /\ pc = "idle"
    /\ \E df \in SummaryTables, num_samples \in SampleCounts :
        Finish([fn |-> "compare_many_from_summary", df |-> df,
                num_samples |-> num_samples, rng0 |-> rng],
               compare_many_from_summary(df, num_samples, rng))

CallSummarizeOne ==
    /\ pc = "idle"
    /\ \E s \in SummaryRows :
        Finish([fn |-> "summarize_one_from_summary", s |-> s, rng0 |-> rng],
               [Blank(rng) EXCEPT
                  !.table = <<s>>,
                  !.individual = [l \in {s.branch} |-> summarize_one_from_summary(s)]])

CallCompareTwo ==
    /\ pc = "idle"
    /\ \E df \in RawFrames, focus_label \in LabelArgs \cup {None},
          control_label \in LabelArgs, num_samples \in SampleCounts :
        Finish([fn |-> "compare_two", df |-> df, focus_label |-> focus_label,
                control_label |-> control_label,
                num_samples |-> num_samples, rng0 |-> rng],
               compare_two(df, focus_label, control_label, num_samples, rng))

CallCompareMany ==
    /\ pc = "idle"
    /\ \E df \in RawFrames, num_samples \in SampleCounts :
        Finish([fn |-> "compare_many", df |-> df,
                num_samples |-> num_samples, rng0 |-> rng],
               compare_many(df, num_samples, rng))

Return ==
    /\ pc = "returned"
    /\ pc' = "idle"
    /\ call' = NoCall
    /\ out' = Blank(0)
    /\ UNCHANGED rng

Next ==
    \/ CallGenerateSamples
    \/ CallSummarizeOne
    \/ CallCompareTwoFromSummary
    \/ CallCompareManyFromSummary
    \/ CallCompareTwo
    \/ CallCompareMany
    \/ Return

Spec == Init /\ [][Next]_vars

----------------------------------------------------------------------------
(* Properties *)

Orchestrators ==
    {"compare_two", "compare_many",
     "compare_two_from_summary", "compare_many_from_summary"}

IsCall(fn) == pc = "returned" /\ call.fn = fn

\* the call failed and handed back no Analysis Result
NoResult == out.status = "raised" /\ DOMAIN out.comparative = {} /\
            DOMAIN out.individual = {}

Binary(df) == \A i \in 1..Len(df) : df[i].value \in {0, 1}

Branches(df) == {df[i].branch : i \in 1..Len(df)}

ValidRow(r) == ~r.nan /\ 0 <= r.num_conversions /\
               r.num_conversions <= r.num_enrollments

\* C1: compare_two_from_summary on a two-branch table whose index lacks
\* control_label fails on the "Which branch is the control?" assertion; the
\* two-branch path on a table of more than two branches without a
\* focus_label fails on the assertion asking for exactly two branches
\* (compare_two_from_summary) or for a focus_label (compare_two); no Analysis
\* Result is returned in either case.
C1_ControlValidation ==
    /\ (IsCall("compare_two_from_summary") /\ Len(call.df) = 2 /\
        call.control_label \notin IndexSet(call.df))
            => (NoResult /\
                out.error = "AssertionError: Which branch is the control?")
    /\ (IsCall("compare_two_from_summary") /\ Len(call.df) > 2)
            => (NoResult /\ out.error = "AssertionError: len(df.index) == 2")
    /\ (IsCall("compare_two") /\ Binary(call.df) /\
        Cardinality(Branches(call.df)) > 2 /\ call.focus_label = None)
            => (NoResult /\
                out.error = "AssertionError: focus_label is not None")

C1_Witness ==
    /\ IsCall("compare_two_from_summary")
    /\ Len(call.df) = 2
    /\ call.control_label = "control"
    /\ "control" \notin IndexSet(call.df)
    /\ call.num_samples > 0
    /\ \A k \in 1..2 : ValidRow(call.df[k])
    /\ out.error = "AssertionError: Which branch is the control?"

DrawsMade == {k \in 1..Len(out.columns) : Len(out.columns[k].draws) > 0}

\* C2: whenever an orchestrator call fails, no posterior draw has been made
\* for any branch and no partial result is returned.
C2_FailFast ==
    (pc = "returned" /\ call.fn \in Orchestrators /\ out.status = "raised")
        => (DrawsMade = {} /\ NoResult)

\* C3: every call of the sampler or of an orchestrator with num_samples <= 0
\* fails, producing neither a Sample Table nor an Analysis Result.
C3_NonPositiveSampleCount ==
    (pc = "returned" /\
     call.fn \in {"_generate_samples", "compare_two_from_summary",
                  "compare_many_from_summary"} /\
     call.num_samples <= 0)
        => (NoResult /\ ~out.sampled)

\* C4: a raw-data entry point fails at its metric check exactly when the
\* metric column holds a value other than 0 or 1; an all-0/1 column of any
\* length passes on to aggregation.
C4_BinaryMetric ==
    (pc = "returned" /\ call.fn \in {"compare_two", "compare_many"})
        => ((out.status = "raised" /\ out.stage = "metric_check")
                <=> ~Binary(call.df))

\* C5: compare_many_from_summary on a table of at least two branches draws
\* one Sample Table (one column per branch, the generator advanced once per
\* value) and hands the comparator, for every branch b, b's column and the
\* row-wise maximum of the other branches' columns.
C5_BestOfRest ==
    (IsCall("compare_many_from_summary") /\ out.status = "returned" /\
     Len(call.df) >= 2)
        => /\ [k \in 1..Len(out.columns) |-> out.columns[k].branch] = Index(call.df)
           /\ out.rng = Advance(call.rng0, call.num_samples * Len(call.df))
           /\ \A b \in IndexSet(call.df) :
                /\ out.comparative[b].focus = Col(out.columns, b)
                /\ Len(out.comparative[b].reference) = call.num_samples
                /\ \A i \in 1..call.num_samples :
                    LET others == {Col(out.columns, x)[i] :
                                      x \in IndexSet(call.df) \ {b}}
                    IN  /\ out.comparative[b].reference[i] \in others
                        /\ \A v \in others : v <= out.comparative[b].reference[i]

C5_Witness ==
    /\ IsCall("compare_many_from_summary")
    /\ out.status = "returned"
    /\ Len(call.df) = 3
    /\ call.num_samples = 2
    /\ \E b \in IndexSet(call.df) : \E i \in 1..2 :
        /\ \A x \in IndexSet(call.df) \ {b} :
              Col(out.columns, x)[i] < Col(out.columns, b)[i]
        /\ out.comparative[b].reference[i] < Col(out.columns, b)[i]

\* C6: on a two-branch table and from the same generator state,
\* compare_many_from_summary hands the comparator, for the test branch, the
\* pair compare_two_from_summary hands it (test samples, control samples),
\* and for the control branch the swapped pair.
C6_TwoVsMany ==
    (IsCall("compare_two_from_summary") /\ out.status = "returned")
        => LET m == compare_many_from_summary(call.df, call.num_samples, call.rng0)
               t == out.test_label
               c == call.control_label
           IN  /\ m.status = "returned"
               /\ m.columns = out.columns
               /\ out.comparative.focus = Col(out.columns, t)
               /\ out.comparative.reference = Col(out.columns, c)
               /\ m.comparative[t] = out.comparative
               /\ m.comparative[c] = [focus |-> out.comparative.reference,
                                      reference |-> out.comparative.focus]

C6_Witness ==
    /\ IsCall("compare_two_from_summary")
    /\ out.status = "returned"
    /\ call.num_samples = 2
    /\ out.comparative.focus # out.comparative.reference

\* what the call in `call` returns when made from generator state s
Replay(s) ==
    CASE call.fn = "compare_two" ->
            compare_two(call.df, call.focus_label, call.control_label,
                        call.num_samples, s)
      [] call.fn = "compare_many" -> compare_many(call.df, call.num_samples, s)
      [] call.fn = "compare_two_from_summary" ->
            compare_two_from_summary(call.df, call.control_label,
                                     call.num_samples, s)
      [] call.fn = "compare_many_from_summary" ->
            compare_many_from_summary(call.df, call.num_samples, s)

\* C7: the outcome of an analysis call is a function of its arguments alone:
\* it is what the same call yields as the first call of the process (from
\* the generator state of Init), whatever calls preceded it.
C7_Stateless ==
    (pc = "returned" /\ call.fn \in Orchestrators)
        => LET first == Replay(0)
           IN  /\ out.status = first.status
               /\ out.error = first.error
               /\ out.status = "returned" =>
                    /\ out.comparative = first.comparative
                    /\ out.individual = first.individual

\* C8: a returned Analysis Result has an `individual` entry for every branch
\* of its comparative part: exactly control_label and test_label on the
\* two-branch path, exactly the table's branches (which index `comparative`)
\* on the multi-branch path.
C8_IndividualCoversComparative ==
    /\ (pc = "returned" /\ out.status = "returned" /\
        call.fn \in {"compare_two", "compare_two_from_summary"})
            => DOMAIN out.individual = {call.control_label, out.test_label}
    /\ (IsCall("compare_many_from_summary") /\ out.status = "returned")
            => /\ DOMAIN out.individual = DOMAIN out.comparative
               /\ DOMAIN out.individual = IndexSet(call.df)

C8_Witness ==
    /\ IsCall("compare_many_from_summary")
    /\ out.status = "returned"
    /\ Len(call.df) = 3
    /\ call.num_samples > 0
    /\ DOMAIN out.individual = Labels

\* C9: on the two-branch path, once the assertions have passed, test_label
\* is a branch of the (extracted) table other than control_label, and is
\* focus_label when compare_two extracted two branches of a larger table; a
\* focus_label that is control_label or is not a branch of the data ends in
\* a validation failure.
C9_TestLabel ==
    (pc = "returned" /\ call.fn \in {"compare_two", "compare_two_from_summary"})
        => /\ out.validated =>
                /\ out.test_label \in IndexSet(out.table)
                /\ out.test_label # call.control_label
                /\ (call.fn = "compare_two" /\ Cardinality(Branches(call.df)) > 2)
                        => out.test_label = call.focus_label
           /\ (call.fn = "compare_two" /\ Binary(call.df) /\
               Cardinality(Branches(call.df)) > 2 /\
               (call.focus_label = call.control_label \/
                call.focus_label \notin Branches(call.df)))
                    => (out.status = "raised" /\ ~out.validated)

\* C10: for every row with 0 <= conversions <= enrollments, the sampler and
\* the summarizer use the shape parameters (conversions + 1, enrollments -
\* conversions + 1), both at least 1, and the call does not fail on a
\* non-positive shape parameter.
C10_BetaParameters ==
    pc = "returned" =>
        /\ \A k \in 1..Len(out.columns) :
            LET r == Loc(out.table, out.columns[k].branch) IN
            ValidRow(r) =>
                /\ out.columns[k].alpha = r.num_conversions + 1
                /\ out.columns[k].beta = r.num_enrollments - r.num_conversions + 1
                /\ out.columns[k].alpha >= 1
                /\ out.columns[k].beta >= 1
        /\ \A b \in DOMAIN out.individual :
            LET r == Loc(out.table, b) IN
            ValidRow(r) =>
                /\ out.individual[b].alpha = r.num_conversions + 1
                /\ out.individual[b].beta = r.num_enrollments - r.num_conversions + 1
                /\ out.individual[b].alpha >= 1
                /\ out.individual[b].beta >= 1
                /\ \A k \in 1..Len(out.columns) :
                    out.columns[k].branch = b =>
                        /\ out.columns[k].alpha = out.individual[b].alpha
                        /\ out.columns[k].beta = out.individual[b].beta
        /\ (\A k \in 1..Len(out.table) : ValidRow(out.table[k]))
                => out.error \notin {"ValueError: a <= 0", "ValueError: b <= 0"}

C10_Witness ==
    /\ IsCall("compare_two_from_summary")
    /\ out.status = "returned"
    /\ call.num_samples > 0
    /\ \E k \in 1..2 :
        /\ call.df[k].num_enrollments = 0
        /\ call.df[k].num_conversions = 0
        /\ out.columns[k].alpha = 1
        /\ out.columns[k].beta = 1
        /\ out.individual[call.df[k].branch].alpha = 1
        /\ out.individual[call.df[k].branch].beta = 1

====
